---- MODULE Spec2Model ----
(***************************************************************************)
(* NASDAQ-100 volatility dashboard: the API handler that turns the Yahoo   *)
(* chart response into {data: [...]} and the Dashboard component that      *)
(* fetches it on mount and once more from a 05:00 timer, stores the series *)
(* and aggregates it into the metric cards.                                *)
(*                                                                         *)
(* The clock counts elapsed time in slots of 1/SlotsPerHour hour since     *)
(* local midnight of day 0.  Local wall time is the clock plus the zone's  *)
(* offset, which may change by one hour at 02:00 of day 1 (a daylight-     *)
(* saving change).  Every `new Date()` is a clock read of its own: the     *)
(* reads of one handler run may fall on both sides of a slot boundary.     *)
(* Real-number division is kept exact as a fraction [num, den].            *)
(***************************************************************************)
EXTENDS Integers, Sequences, FiniteSets, TLC

VARIABLES clock, phase, timer, requests, responses, fetchesStarted,
          data, metrics, lastUpdateTime, nextUpdateTime, errors, crashed,
          tornDownIn, timeRange, zone

vars == <<clock, phase, timer, requests, responses, fetchesStarted,
          data, metrics, lastUpdateTime, nextUpdateTime, errors, crashed,
          tornDownIn, timeRange, zone>>

(***************************************************************************)
(* Bounds and program constants                                            *)
(***************************************************************************)
SlotsPerHour == 1
MaxHours == 30
MaxLen == 101
MaxEffectDelay == 1

HoursPerDay == 24
RefreshHour == 5
Window7 == 7
Window30 == 30
Window100 == 100
MsPerSecond == 1000
MsPerDay == 86400000

SlotsPerDay == HoursPerDay * SlotsPerHour
MaxClock == MaxHours * SlotsPerHour

(***************************************************************************)
(* JavaScript Date arithmetic: a Date holds elapsed time, its fields are   *)
(* read and written in the browser's local time                            *)
(***************************************************************************)
\* a zone whose offset grows by s hours at 02:00 local time of day 1
Zone(s) == [change |-> SlotsPerDay + 2 * SlotsPerHour,
            shift |-> s * SlotsPerHour]

\* no change, clocks set back one hour, clocks set forward one hour
Zones == {Zone(s) : s \in {0, -1, 1}}

\* the wall time shown by a Date
local(t) == IF t >= zone.change THEN t + zone.shift ELSE t

\* the Date of a wall time (of the later one where a wall time repeats)
getTime(l) == IF l - zone.shift >= zone.change THEN l - zone.shift ELSE l

getHours(t) == (local(t) % SlotsPerDay) \div SlotsPerHour

\* date.setHours(h, 0, 0, 0)
setHours(t, h) ==
    getTime((local(t) \div SlotsPerDay) * SlotsPerDay + h * SlotsPerHour)

\* date.setDate(date.getDate() + 1)
addDay(t) == getTime(local(t) + SlotsPerDay)

\* the values successive `new Date()` calls of one run can return
ClockReads == {clock} \cup (IF clock < MaxClock THEN {clock + 1} ELSE {})

\* next5am built from one clock read (date) with the hour test made on
\* another (hourRead)
next5am(date, hourRead) ==
    IF getHours(hourRead) >= RefreshHour
    THEN addDay(setHours(date, RefreshHour))
    ELSE setHours(date, RefreshHour)

(***************************************************************************)
(* Array helpers                                                           *)
(***************************************************************************)
Min2(a, b) == IF a < b THEN a ELSE b

Max2(a, b) == IF a > b THEN a ELSE b

slice(arr, k) ==
    IF Len(arr) <= k THEN arr ELSE SubSeq(arr, Len(arr) - k + 1, Len(arr))

RECURSIVE reduceSum(_)
reduceSum(arr) ==
    IF Len(arr) = 0 THEN 0 ELSE arr[1] + reduceSum(Tail(arr))

RECURSIVE MathMax(_)
MathMax(arr) ==
    IF Len(arr) = 1 THEN arr[1] ELSE Max2(arr[1], MathMax(Tail(arr)))

RECURSIVE MathMin(_)
MathMin(arr) ==
    IF Len(arr) = 1 THEN arr[1] ELSE Min2(arr[1], MathMin(Tail(arr)))

Div(a, b) == [num |-> a, den |-> b]

RatEq(x, y) == x.num * y.den = y.num * x.den

(***************************************************************************)
(* Dashboard state values                                                  *)
(***************************************************************************)
Arr(items) == [tag |-> "array", items |-> items]

Undefined == [tag |-> "undefined", items |-> <<>>]

ZeroMetrics ==
    [current |-> 0, avg7d |-> Div(0, 1), avg30d |-> Div(0, 1),
     max7d |-> 0, max30d |-> 0, avg100d |-> Div(0, 1),
     min7d |-> 0, min30d |-> 0]

(***************************************************************************)
(* calculateMetrics: the Metrics state after the call, given the state     *)
(* before it (the early return leaves the state as it was)                 *)
(***************************************************************************)
volatilitiesOf(stockData) ==
    [i \in 1..Len(stockData) |-> stockData[i].volatility]

calculateMetrics_lengthDivisor(stockData, prev) ==
    IF Len(stockData) = 0 THEN prev
    ELSE LET volatilities == volatilitiesOf(stockData)
             last7 == slice(volatilities, Window7)
             last30 == slice(volatilities, Window30)
             last100 == slice(volatilities, Window100)
         IN [current |-> volatilities[Len(volatilities)],
             avg7d |-> Div(reduceSum(last7), Len(last7)),
             avg30d |-> Div(reduceSum(last30), Len(last30)),
             max7d |-> MathMax(last7),
             max30d |-> MathMax(last30),
             avg100d |-> Div(reduceSum(last100), Len(last100)),
             min7d |-> MathMin(last7),
             min30d |-> MathMin(last30)]

calculateMetrics_merged(stockData, prev) ==
    IF Len(stockData) = 0 THEN prev
    ELSE LET volatilities == volatilitiesOf(stockData)
             last7 == slice(volatilities, Window7)
             last30 == slice(volatilities, Window30)
             last100 == slice(volatilities, Window100)
         IN [current |-> volatilities[Len(volatilities)],
             avg7d |-> Div(reduceSum(last7), Window7),
             avg30d |-> Div(reduceSum(last30), Window30),
             max7d |-> Max2(prev.max7d, MathMax(last7)),
             max30d |-> Max2(prev.max30d, MathMax(last30)),
             avg100d |-> Div(reduceSum(last100), Len(last100)),
             min7d |-> MathMin(last7),
             min30d |-> MathMin(last30)]

calculateMetrics_unguarded(stockData, prev) ==
    IF Len(stockData) = 0
    THEN [current |-> 0, avg7d |-> Div(0, Window7),
          avg30d |-> Div(0, Window30), max7d |-> 0, max30d |-> 0,
          avg100d |-> Div(0, Len(stockData)), min7d |-> 0, min30d |-> 0]
    ELSE LET volatilities == volatilitiesOf(stockData)
             last7 == slice(volatilities, Window7)
             last30 == slice(volatilities, Window30)
             last100 == slice(volatilities, Window100)
         IN [current |-> volatilities[Len(volatilities)],
             avg7d |-> Div(reduceSum(last7), Window7),
             avg30d |-> Div(reduceSum(last30), Window30),
             max7d |-> MathMax(last7),
             max30d |-> MathMax(last30),
             avg100d |-> Div(reduceSum(last100), Len(last100)),
             min7d |-> MathMin(last7),
             min30d |-> MathMin(last30)]

calculateMetrics_wideMax(stockData, prev) ==
    IF Len(stockData) = 0 THEN prev
    ELSE LET volatilities == volatilitiesOf(stockData)
             last7 == slice(volatilities, Window7)
             last30 == slice(volatilities, Window30)
             last100 == slice(volatilities, Window100)
         IN [current |-> volatilities[Len(volatilities)],
             avg7d |-> Div(reduceSum(last7), Window7),
             avg30d |-> Div(reduceSum(last30), Window30),
             max7d |-> MathMax(last30),
             max30d |-> MathMax(last30),
             avg100d |-> Div(reduceSum(last100), Len(last100)),
             min7d |-> MathMin(last7),
             min30d |-> MathMin(last30)]

calculateMetrics_firstCurrent(stockData, prev) ==
    IF Len(stockData) = 0 THEN prev
    ELSE LET volatilities == volatilitiesOf(stockData)
             last7 == slice(volatilities, Window7)
             last30 == slice(volatilities, Window30)
             last100 == slice(volatilities, Window100)
         IN [current |-> volatilities[1],
             avg7d |-> Div(reduceSum(last7), Window7),
             avg30d |-> Div(reduceSum(last30), Window30),
             max7d |-> MathMax(last7),
             max30d |-> MathMax(last30),
             avg100d |-> Div(reduceSum(last100), Len(last100)),
             min7d |-> MathMin(last7),
             min30d |-> MathMin(last30)]

calculateMetrics(stockData, prev) ==
    IF Len(stockData) = 0 THEN prev
    ELSE LET volatilities == volatilitiesOf(stockData)
             last7 == slice(volatilities, Window7)
             last30 == slice(volatilities, Window30)
             last100 == slice(volatilities, Window100)
         IN [current |-> volatilities[Len(volatilities)],
             avg7d |-> Div(reduceSum(last7), Window7),
             avg30d |-> Div(reduceSum(last30), Window30),
             max7d |-> MathMax(last7),
             max30d |-> MathMax(last30),
             avg100d |-> Div(reduceSum(last100), Len(last100)),
             min7d |-> MathMin(last7),
             min30d |-> MathMin(last30)]

(***************************************************************************)
(* API handler: upstream chart result -> response body                     *)
(***************************************************************************)
toISOString(ms) == [day |-> ms \div MsPerDay, msOfDay |-> ms % MsPerDay]

handlerData_swapped(chart) ==
    [index \in 1..Len(chart.timestamp) |->
        [date |-> toISOString(chart.timestamp[index] * MsPerSecond),
         volatility |-> chart.low[index] - chart.high[index],
         high |-> chart.high[index],
         low |-> chart.low[index]]]

handlerData_reversed(chart) ==
    [index \in 1..Len(chart.timestamp) |->
        LET from == Len(chart.timestamp) + 1 - index
        IN [date |-> toISOString(chart.timestamp[from] * MsPerSecond),
            volatility |-> chart.high[from] - chart.low[from],
            high |-> chart.high[from],
            low |-> chart.low[from]]]

handlerData(chart) ==
    [index \in 1..Len(chart.timestamp) |->
        [date |-> toISOString(chart.timestamp[index] * MsPerSecond),
         volatility |-> chart.high[index] - chart.low[index],
         high |-> chart.high[index],
         low |-> chart.low[index]]]

OkBody(chart) == [status |-> 200, hasData |-> TRUE, data |-> handlerData(chart)]

ErrorBody == [status |-> 500, hasData |-> FALSE, data |-> <<>>]

(***************************************************************************)
(* Upstream chart results the handler is run on                            *)
(***************************************************************************)
ChartEmpty == [timestamp |-> <<>>, high |-> <<>>, low |-> <<>>]

ChartScenario ==
    [timestamp |-> <<86400, 172800, 259200>>,
     high |-> <<100, 110, 105>>,
     low |-> <<90, 95, 100>>]

ChartRepeated ==
    [timestamp |-> <<172800, 172800>>,
     high |-> <<7, 9>>,
     low |-> <<4, 1>>]

Charts == {ChartEmpty, ChartScenario, ChartRepeated}

InFlight == requests \cup {r.id : r \in responses}

Armed == timer.pending /\ InFlight = {}

Fetching == InFlight # {}

(***************************************************************************)
(* Initial state: the component's first render.  The initial values of     *)
(* lastUpdateTime and nextUpdateTime are two clock reads                   *)
(***************************************************************************)
Init ==
    /\ zone \in Zones
    /\ lastUpdateTime \in 0..(SlotsPerDay - 1)
    /\ nextUpdateTime \in {lastUpdateTime, lastUpdateTime + 1}
    /\ clock = nextUpdateTime
    /\ phase = "idle"
    /\ timer = [pending |-> FALSE, due |-> 0]
    /\ requests = {}
    /\ responses = {}
    /\ fetchesStarted = 0
    /\ data = Arr(<<>>)
    /\ metrics = ZeroMetrics
    /\ errors = 0
    /\ crashed = FALSE
    /\ tornDownIn = "none"
    /\ timeRange = "30d"

(***************************************************************************)
(* Actions                                                                 *)
(***************************************************************************)
\* fetchData up to its first await: the request leaves
StartFetch ==
    /\ fetchesStarted' = fetchesStarted + 1
    /\ requests' = requests \cup {fetchesStarted + 1}

Mount_noFetch ==
    /\ phase = "idle"
    /\ phase' = "mounted"
    /\ \E now \in ClockReads : \E dateRead \in {t \in ClockReads : t >= now} :
          LET msUntil5am == next5am(dateRead, now) - now
          IN /\ timer' = [pending |-> TRUE, due |-> now + msUntil5am]
             /\ clock' = dateRead
    /\ UNCHANGED <<requests, responses, fetchesStarted, data, metrics,
                   lastUpdateTime, nextUpdateTime, errors, crashed,
                   tornDownIn, timeRange, zone>>

\* useEffect body: fetch at once, then arm the single 05:00 timer.  `now`
\* and the Date that becomes next5am are two clock reads, the hour test is
\* made on `now`; the timeout runs from the setTimeout call, which follows
\* the read of `now` in the same run
Mount ==
    /\ phase = "idle"
    /\ phase' = "mounted"
    /\ StartFetch
    /\ \E now \in ClockReads : \E dateRead \in {t \in ClockReads : t >= now} :
          LET msUntil5am == next5am(dateRead, now) - now
          IN /\ timer' = [pending |-> TRUE, due |-> now + msUntil5am]
             /\ clock' = dateRead
    /\ UNCHANGED <<responses, data, metrics, lastUpdateTime,
                   nextUpdateTime, errors, crashed, tornDownIn,
                   timeRange, zone>>

\* setTimeout callback, run at the due time or any time later: fetchData is
\* called, nothing is re-armed
TimerFire ==
    /\ timer.pending
    /\ clock >= timer.due
    /\ timer' = [timer EXCEPT !.pending = FALSE]
    /\ StartFetch
    /\ UNCHANGED <<clock, phase, responses, data, metrics, lastUpdateTime,
                   nextUpdateTime, errors, crashed, tornDownIn,
                   timeRange,
                   zone>>

Unmount_keepsTimer ==
    /\ phase = "mounted"
    /\ phase' = "unmounted"
    /\ timer' = timer
    /\ tornDownIn' = IF Armed THEN "Armed"
                     ELSE IF Fetching THEN "Fetching" ELSE "Spent"
    /\ UNCHANGED <<clock, requests, responses, fetchesStarted, data, metrics,
                   lastUpdateTime, nextUpdateTime, errors, crashed,
                   timeRange,
                   zone>>

\* useEffect cleanup: clearTimeout(timer); requests are left alone
Unmount ==
    /\ phase = "mounted"
    /\ phase' = "unmounted"
    /\ timer' = [timer EXCEPT !.pending = FALSE]
    /\ tornDownIn' = IF Armed THEN "Armed"
                     ELSE IF Fetching THEN "Fetching" ELSE "Spent"
    /\ UNCHANGED <<clock, requests, responses, fetchesStarted, data, metrics,
                   lastUpdateTime, nextUpdateTime, errors, crashed,
                   timeRange,
                   zone>>

\* API handler answers a request with 200 {data}
HandlerOk(id, chart) ==
    /\ id \in requests
    /\ requests' = requests \ {id}
    /\ responses' = responses \cup {[id |-> id, body |-> OkBody(chart)]}
    /\ UNCHANGED <<clock, phase, timer, fetchesStarted, data, metrics,
                   lastUpdateTime, nextUpdateTime, errors, crashed,
                   tornDownIn, timeRange,
                   zone>>

\* API handler catches an upstream failure and answers 500 {error}
HandlerError(id) ==
    /\ id \in requests
    /\ requests' = requests \ {id}
    /\ responses' = responses \cup {[id |-> id, body |-> ErrorBody]}
    /\ UNCHANGED <<clock, phase, timer, fetchesStarted, data, metrics,
                   lastUpdateTime, nextUpdateTime, errors, crashed,
                   tornDownIn, timeRange,
                   zone>>

\* fetch() or response.json() rejects: the catch block only logs
FetchRejected(id) ==
    /\ id \in requests
    /\ requests' = requests \ {id}
    /\ errors' = errors + 1
    /\ UNCHANGED <<clock, phase, timer, responses, fetchesStarted, data,
                   metrics, lastUpdateTime, nextUpdateTime, crashed,
                   tornDownIn, timeRange,
                   zone>>

\* fetchData after the awaits, on a body with a data array.  The time
\* stored as lastUpdateTime, the Date that becomes next5am and the Date of
\* the hour test are three clock reads
FetchResolvedData(r) ==
    /\ r \in responses
    /\ r.body.hasData
    /\ responses' = responses \ {r}
    /\ data' = Arr(r.body.data)
    /\ metrics' = calculateMetrics(r.body.data, metrics)
    /\ \E updated \in ClockReads :
       \E dateRead \in {t \in ClockReads : t >= updated} :
       \E hourRead \in {t \in ClockReads : t >= dateRead} :
          /\ lastUpdateTime' = updated
          /\ nextUpdateTime' = next5am(dateRead, hourRead)
          /\ clock' = hourRead
    /\ UNCHANGED <<phase, timer, requests, fetchesStarted, errors,
                   crashed, tornDownIn, timeRange, zone>>

\* fetchData after the awaits, on a body without data: setData(undefined),
\* then calculateMetrics throws on undefined.length and the catch block logs
FetchResolvedNoData(r) ==
    /\ r \in responses
    /\ ~r.body.hasData
    /\ responses' = responses \ {r}
    /\ data' = Undefined
    /\ errors' = errors + 1
    /\ UNCHANGED <<clock, phase, timer, requests, fetchesStarted, metrics,
                   lastUpdateTime, nextUpdateTime, crashed, tornDownIn,
                   timeRange, zone>>

\* a render with data undefined: getChartData throws on data.slice; no error
\* boundary catches it, so React unmounts the tree and the effect cleanup
\* clears the timer
RenderThrows ==
    /\ phase = "mounted"
    /\ data.tag = "undefined"
    /\ crashed' = TRUE
    /\ phase' = "unmounted"
    /\ timer' = [timer EXCEPT !.pending = FALSE]
    /\ tornDownIn' = "Crashed"
    /\ UNCHANGED <<clock, requests, responses, fetchesStarted, data, metrics,
                   lastUpdateTime, nextUpdateTime, errors, timeRange, zone>>

TimeRanges == {"7d", "30d", "100d"}

getChartData_head(d, range) ==
    LET days == IF range = "7d" THEN Window7
                ELSE IF range = "30d" THEN Window30 ELSE Window100
    IN SubSeq(d.items, 1, Min2(days, Len(d.items)))

\* the slice the chart is rendered from
getChartData(d, range) ==
    LET days == IF range = "7d" THEN Window7
                ELSE IF range = "30d" THEN Window30 ELSE Window100
    IN slice(d.items, days)

\* a range button's onClick: setTimeRange(range)
SetTimeRange(range) ==
    /\ phase = "mounted"
    /\ timeRange' = range
    /\ UNCHANGED <<clock, phase, timer, requests, responses, fetchesStarted,
                   data, metrics, lastUpdateTime, nextUpdateTime, errors,
                   crashed, tornDownIn, zone>>

\* time passes; the mount effect runs within MaxEffectDelay of the first
\* render, a due timer may fire late
Tick ==
    /\ clock < MaxClock
    /\ phase = "idle" => clock - nextUpdateTime < MaxEffectDelay
    /\ clock' = clock + 1
    /\ UNCHANGED <<phase, timer, requests, responses, fetchesStarted, data,
                   metrics, lastUpdateTime, nextUpdateTime, errors, crashed,
                   tornDownIn, timeRange, zone>>

Next ==
    \/ Mount
    \/ TimerFire
    \/ Unmount
    \/ \E id \in requests : \E chart \in Charts : HandlerOk(id, chart)
    \/ \E id \in requests : HandlerError(id)
    \/ \E id \in requests : FetchRejected(id)
    \/ \E r \in responses : FetchResolvedData(r)
    \/ \E r \in responses : FetchResolvedNoData(r)
    \/ RenderThrows
    \/ \E range \in TimeRanges : SetTimeRange(range)
    \/ Tick

Spec == Init /\ [][Next]_vars

TypeOK ==
    /\ clock \in 0..MaxClock
    /\ phase \in {"idle", "mounted", "unmounted"}
    /\ fetchesStarted \in 0..2
    /\ data.tag \in {"array", "undefined"}
    /\ zone \in Zones
    /\ crashed => phase = "unmounted"

(***************************************************************************)
(* Aggregator on its own: calculateMetrics called once with one argument,  *)
(* from any Metrics state an earlier call can have left behind             *)
(***************************************************************************)
Levels == {1, 3}

CutPoints ==
    {0, 1, Window7 - 1, Window7, Window7 + 1, Window30 - 1, Window30,
     Window30 + 1, Window100 - 1, Window100, Window100 + 1}

\* n days, the last k of them with range b and the earlier ones with range a
BlockChart(n, k, a, b) ==
    [timestamp |-> [i \in 1..n |-> i],
     high |-> [i \in 1..n |-> 50 + (IF i > n - k THEN b ELSE a)],
     low |-> [i \in 1..n |-> 50]]

SeriesFamily ==
    {handlerData(ChartScenario)} \cup
    {handlerData(BlockChart(n, k, a, b)) :
        n \in 0..MaxLen, k \in CutPoints, a \in Levels, b \in Levels}

\* Metrics states left behind by earlier calls
PriorSnapshots ==
    {ZeroMetrics,
     calculateMetrics(handlerData(ChartScenario), ZeroMetrics),
     calculateMetrics(handlerData(ChartRepeated), ZeroMetrics)}

InitAgg ==
    /\ zone = Zone(0)
    /\ clock = 0
    /\ phase = "call"
    /\ timer = [pending |-> FALSE, due |-> 0]
    /\ requests = {}
    /\ responses = {}
    /\ fetchesStarted = 0
    /\ data \in {Arr(s) : s \in SeriesFamily} \cup {Undefined}
    /\ metrics \in PriorSnapshots
    /\ lastUpdateTime = 0
    /\ nextUpdateTime = 0
    /\ errors = 0
    /\ crashed = FALSE
    /\ tornDownIn = "none"
    /\ timeRange = "30d"

\* calculateMetrics(data): reading .length of undefined throws a TypeError,
\* otherwise the call returns (with or without a setMetrics)
AggApply ==
    /\ phase = "call"
    /\ IF data.tag = "undefined"
       THEN phase' = "thrown" /\ metrics' = metrics
       ELSE phase' = "returned"
            /\ metrics' = calculateMetrics(data.items, metrics)
    /\ UNCHANGED <<clock, timer, requests, responses, fetchesStarted, data,
                   lastUpdateTime, nextUpdateTime, errors, crashed,
                   tornDownIn, timeRange,
                   zone>>

NextAgg == AggApply

SpecAgg == InitAgg /\ [][NextAgg]_vars

(***************************************************************************)
(* Chart window on its own: a live session whose first fetch, resolved at  *)
(* midnight of day 0, stored one series; the user clicks the range buttons *)
(***************************************************************************)
InitView ==
    /\ zone = Zone(0)
    /\ clock = 0
    /\ phase = "mounted"
    /\ timer = [pending |-> TRUE, due |-> next5am(0, 0)]
    /\ requests = {}
    /\ responses = {}
    /\ fetchesStarted = 1
    /\ data \in {Arr(s) : s \in SeriesFamily}
    /\ metrics = calculateMetrics(data.items, ZeroMetrics)
    /\ lastUpdateTime = 0
    /\ nextUpdateTime = next5am(0, 0)
    /\ errors = 0
    /\ crashed = FALSE
    /\ tornDownIn = "none"
    /\ timeRange = "30d"

NextView == \E range \in TimeRanges : SetTimeRange(range)

SpecView == InitView /\ [][NextView]_vars

(***************************************************************************)
(* Vocabulary of the properties                                            *)
(***************************************************************************)
\* 05:00:00.000 local time of a calendar day
FiveOn(day) == getTime(day * SlotsPerDay + RefreshHour * SlotsPerHour)

\* the local calendar day of a time
DayOf(t) == local(t) \div SlotsPerDay

\* the first 05:00:00.000 strictly after t
NextFive(t) == IF t < FiveOn(DayOf(t)) THEN FiveOn(DayOf(t))
               ELSE FiveOn(DayOf(t) + 1)

\* a step in which a fetch attempt ends without the catch block running
SuccessStep ==
    /\ Cardinality(responses') < Cardinality(responses)
    /\ errors' = errors

\* a step in which a fetch attempt ends in the catch block
FailureStep == errors' # errors

RECURSIVE SumRange(_, _, _)
SumRange(S, lo, hi) ==
    IF lo > hi THEN 0 ELSE S[hi].volatility + SumRange(S, lo, hi - 1)

\* sum of the volatilities of the trailing min(N, W) elements
TrailSum(S, W) == SumRange(S, Len(S) - Min2(Len(S), W) + 1, Len(S))

ScenarioSeries == handlerData(ChartScenario)

(***************************************************************************)
(* C1: while the session is up, after every fetch completion the scheduler *)
(* is Armed again with a timer pending for the next 05:00, so a fetch is   *)
(* started on every following day.  The code arms one timer at mount and   *)
(* never again: once the timer-triggered fetch has completed nothing is    *)
(* pending.                                                                *)
(***************************************************************************)
C1_RearmedAfterEveryFetch ==
    (phase = "mounted" /\ ~crashed /\ fetchesStarted >= 1 /\ InFlight = {})
        => timer.pending

(***************************************************************************)
(* C2: at most one fetch is in flight, and no timer is pending while a     *)
(* fetch is unresolved.  The code arms the timer in the same effect run    *)
(* that starts the first fetch, and the timer callback starts a fetch      *)
(* without looking at the first one.                                       *)
(***************************************************************************)
C2_NoOverlap ==
    /\ ~(timer.pending /\ InFlight # {})
    /\ Cardinality(InFlight) <= 1

(***************************************************************************)
(* C3: a failed fetch attempt (transport error, or a body without a data   *)
(* array such as the handler's error response) leaves the Series as it was *)
(* and the component does not crash afterwards.                            *)
(***************************************************************************)
C3_FailureKeepsSeries ==
    /\ [][FailureStep => data' = data]_vars
    /\ []~crashed

(***************************************************************************)
(* C4: a failed fetch attempt still sets lastUpdate to the time of the     *)
(* attempt and nextUpdate to the next future 05:00.                        *)
(***************************************************************************)
C4_FailureUpdatesRefreshState ==
    [][FailureStep => (lastUpdateTime' = clock
                       /\ nextUpdateTime' = NextFive(clock))]_vars

(***************************************************************************)
(* C5: a teardown while the scheduler is Armed cancels the pending wait:   *)
(* from then on no timer is pending and no fetch is started.               *)
(***************************************************************************)
C5_TeardownCancelsTimer ==
    [][/\ (phase = "mounted" /\ Armed /\ phase' = "unmounted")
            => ~timer'.pending
       /\ tornDownIn = "Armed"
            => (~timer'.pending /\ fetchesStarted' = fetchesStarted)]_vars

C5_Witness ==
    /\ tornDownIn = "Armed"
    /\ fetchesStarted = 1
    /\ clock > timer.due

(***************************************************************************)
(* C6: a teardown cancels the fetch in flight too: after teardown no       *)
(* network call is pending and no later response writes the Series, the    *)
(* Metrics snapshot or RefreshState.                                       *)
(***************************************************************************)
C6_TeardownCancelsFetch ==
    [][/\ phase' = "unmounted" => InFlight' = {}
       /\ phase = "unmounted"
            => UNCHANGED <<data, metrics, lastUpdateTime,
                           nextUpdateTime>>]_vars

(***************************************************************************)
(* C7: the nextUpdate computed at a fetch completion (and the timer        *)
(* deadline computed at mount) is 05:00:00.000 local time, on the next day *)
(* if the local time of the completion is at or after 05:00 and on the     *)
(* same day otherwise; it is strictly later than the completion and at     *)
(* most 24 hours later.  The code builds the value from separate clock     *)
(* reads, so a run that straddles midnight pairs the date of one day with  *)
(* the hour of another.                                                    *)
(***************************************************************************)
C7Rule(now, target) ==
    /\ local(target) % SlotsPerDay = RefreshHour * SlotsPerHour
    /\ DayOf(target) =
          IF local(now) % SlotsPerDay >= RefreshHour * SlotsPerHour
          THEN DayOf(now) + 1 ELSE DayOf(now)
    /\ target > now
    /\ target - now <= HoursPerDay * SlotsPerHour

C7_NextUpdateIsNextFive ==
    [][/\ SuccessStep => C7Rule(lastUpdateTime', nextUpdateTime')
       /\ (phase = "idle" /\ phase' = "mounted")
            => \E now \in {clock, clock'} : C7Rule(now, timer'.due)]_vars

(***************************************************************************)
(* C8 as stated: whenever the store holds a Series, the Metrics snapshot   *)
(* is the aggregation of exactly that Series, also when the Series is      *)
(* empty (then no field carries a value of an earlier Series: the snapshot *)
(* is the no-data snapshot).                                               *)
(***************************************************************************)
C8_MetricsAlwaysFresh ==
    data.tag = "array" =>
        metrics = calculateMetrics(data.items, ZeroMetrics)

(***************************************************************************)
(* C8 amended: whenever the store holds a non-empty Series, the Metrics    *)
(* snapshot is the aggregation of exactly that Series, computed from it    *)
(* alone.                                                                  *)
(***************************************************************************)
C8_MetricsFreshWhenNonEmpty ==
    (data.tag = "array" /\ Len(data.items) >= 1) =>
        metrics = calculateMetrics(data.items, ZeroMetrics)

\* both fetches of a session succeeded and the store holds a Series
C8_Witness ==
    /\ fetchesStarted = 2
    /\ InFlight = {}
    /\ errors = 0
    /\ data.tag = "array"
    /\ Len(data.items) >= 1
    /\ lastUpdateTime >= timer.due

(***************************************************************************)
(* C9: for a non-empty Series of length N, avg7d and avg30d are the sums   *)
(* of the trailing min(N,7) and min(N,30) volatilities divided by 7 and by *)
(* 30, avg100d is the sum of the trailing min(N,100) divided by            *)
(* min(N,100); volatilities [10, 15, 5] give avg7d = 30/7, avg100d = 10.   *)
(***************************************************************************)
C9_DivisorAsymmetry ==
    (phase = "returned" /\ Len(data.items) >= 1) =>
        LET S == data.items
            N == Len(S)
        IN /\ RatEq(metrics.avg7d, Div(TrailSum(S, 7), 7))
           /\ RatEq(metrics.avg30d, Div(TrailSum(S, 30), 30))
           /\ RatEq(metrics.avg100d, Div(TrailSum(S, 100), Min2(N, 100)))
           /\ S = ScenarioSeries =>
                /\ RatEq(metrics.avg7d, Div(30, 7))
                /\ RatEq(metrics.avg100d, Div(10, 1))

\* the N = 3 scenario has been aggregated
C9_Witness ==
    /\ phase = "returned"
    /\ data.items = ScenarioSeries
    /\ metrics.avg7d = Div(30, 7)
    /\ metrics.avg100d = Div(30, 3)

(***************************************************************************)
(* C10 as stated: the handler's response carries no volatility (the        *)
(* Fetcher does not compute it), and every stored observation has          *)
(* volatility = high - low.                                                *)
(***************************************************************************)
StoredVolatilityIsRange ==
    data.tag = "array" =>
        \A i \in 1..Len(data.items) :
            data.items[i].volatility = data.items[i].high - data.items[i].low

C10_CoreComputesVolatility ==
    /\ \A r \in responses : \A i \in 1..Len(r.body.data) :
          "volatility" \notin DOMAIN r.body.data[i]
    /\ StoredVolatilityIsRange

(***************************************************************************)
(* C10 amended: the handler computes volatility = high - low for every     *)
(* element of its response and the component stores the elements as        *)
(* received, so every stored observation has volatility = high - low.      *)
(***************************************************************************)
C10_HandlerComputesVolatility ==
    /\ \A r \in responses : \A i \in 1..Len(r.body.data) :
          /\ "volatility" \in DOMAIN r.body.data[i]
          /\ r.body.data[i].volatility
                = r.body.data[i].high - r.body.data[i].low
    /\ StoredVolatilityIsRange

C10_Witness ==
    /\ data.tag = "array"
    /\ Len(data.items) = 3
    /\ data.items[2].high = 110
    /\ data.items[2].low = 95
    /\ data.items[2].volatility = 15

(***************************************************************************)
(* C11 as stated: a call of the aggregator with an empty Series signals a  *)
(* condition to its caller instead of returning normally.                  *)
(***************************************************************************)
C11_EmptySignals ==
    (phase \in {"returned", "thrown"} /\ data = Arr(<<>>))
        => phase = "thrown"

(***************************************************************************)
(* C11 amended: a call of the aggregator with an empty Series divides by   *)
(* nothing and returns normally, signalling nothing and leaving the        *)
(* Metrics snapshot exactly as it was.                                     *)
(***************************************************************************)
NoZeroDivisor(m) ==
    m.avg7d.den # 0 /\ m.avg30d.den # 0 /\ m.avg100d.den # 0

C11_EmptyReturnsSilently ==
    [][(phase = "call" /\ data = Arr(<<>>))
         => (phase' = "returned" /\ metrics' = metrics
             /\ NoZeroDivisor(metrics'))]_vars

\* an empty call has returned on top of the snapshot of an earlier series
C11_Witness ==
    /\ phase = "returned"
    /\ data = Arr(<<>>)
    /\ metrics # ZeroMetrics

(***************************************************************************)
(* C12: for a Series of length N >= 1 and W in {7, 30}, maxWd and minWd    *)
(* are the largest and the smallest of exactly the trailing min(N, W)      *)
(* volatilities, so maxWd >= minWd.                                        *)
(***************************************************************************)
TrailIdx(S, W) == (Len(S) - Min2(Len(S), W) + 1)..Len(S)

IsMaxOfTrail(v, S, W) ==
    /\ \E i \in TrailIdx(S, W) : S[i].volatility = v
    /\ \A i \in TrailIdx(S, W) : S[i].volatility <= v

IsMinOfTrail(v, S, W) ==
    /\ \E i \in TrailIdx(S, W) : S[i].volatility = v
    /\ \A i \in TrailIdx(S, W) : S[i].volatility >= v

C12_MaxMinOfTrailingWindow ==
    (phase = "returned" /\ Len(data.items) >= 1) =>
        /\ IsMaxOfTrail(metrics.max7d, data.items, 7)
        /\ IsMinOfTrail(metrics.min7d, data.items, 7)
        /\ IsMaxOfTrail(metrics.max30d, data.items, 30)
        /\ IsMinOfTrail(metrics.min30d, data.items, 30)
        /\ metrics.max7d >= metrics.min7d
        /\ metrics.max30d >= metrics.min30d

\* a larger value lies outside the last 7 but inside the last 30
C12_Witness ==
    /\ phase = "returned"
    /\ Len(data.items) > 30
    /\ metrics.max7d < metrics.max30d
    /\ metrics.min7d = metrics.max7d

(***************************************************************************)
(* C13: for a non-empty Series, current is the volatility of its last      *)
(* element.                                                                *)
(***************************************************************************)
C13_CurrentIsLast ==
    (phase = "returned" /\ Len(data.items) >= 1) =>
        metrics.current = data.items[Len(data.items)].volatility

C13_Witness ==
    /\ phase = "returned"
    /\ Len(data.items) >= 2
    /\ data.items[1].volatility # data.items[Len(data.items)].volatility
    /\ metrics.current = data.items[Len(data.items)].volatility

(***************************************************************************)
(* C14 as stated: the snapshot a call leaves behind depends on the Series  *)
(* alone (it is the same whatever Metrics state earlier operations left),  *)
(* and the call changes neither the Series nor RefreshState.               *)
(***************************************************************************)
C14_PureOfSeries ==
    [][(phase = "call" /\ phase' = "returned")
         => /\ \A p \in PriorSnapshots :
                  metrics' = calculateMetrics(data.items, p)
            /\ UNCHANGED <<data, lastUpdateTime, nextUpdateTime>>]_vars

(***************************************************************************)
(* C14 amended: for a non-empty Series the snapshot a call leaves behind   *)
(* depends on the Series alone, and the call changes neither the Series    *)
(* nor RefreshState.                                                       *)
(***************************************************************************)
C14_PureOfNonEmptySeries ==
    [][(phase = "call" /\ phase' = "returned" /\ Len(data.items) >= 1)
         => /\ \A p \in PriorSnapshots :
                  metrics' = calculateMetrics(data.items, p)
            /\ UNCHANGED <<data, lastUpdateTime, nextUpdateTime>>]_vars

C14_Witness ==
    /\ phase = "returned"
    /\ data = Arr(ScenarioSeries)
    /\ metrics = calculateMetrics(ScenarioSeries, ZeroMetrics)
    /\ metrics.current = 5

(***************************************************************************)
(* C15 as stated: whenever the store holds a Series it is strictly         *)
(* increasing by date (no duplicate dates), also for upstream timestamps   *)
(* that are only non-decreasing.                                           *)
(***************************************************************************)
DateLess(a, b) ==
    a.day < b.day \/ (a.day = b.day /\ a.msOfDay < b.msOfDay)

C15_StrictlyIncreasingDates ==
    data.tag = "array" =>
        \A i \in 1..(Len(data.items) - 1) :
            DateLess(data.items[i].date, data.items[i + 1].date)

(***************************************************************************)
(* C15 amended: whenever the store holds a Series built from non-          *)
(* decreasing upstream timestamps it is non-decreasing by date; a repeated *)
(* upstream timestamp is kept as a duplicate date.                         *)
(***************************************************************************)
C15_NonDecreasingDates ==
    data.tag = "array" =>
        \A i \in 1..(Len(data.items) - 1) :
            ~DateLess(data.items[i + 1].date, data.items[i].date)

\* a Series with a duplicate date is in the store
C15_Witness ==
    /\ data.tag = "array"
    /\ Len(data.items) = 2
    /\ data.items[1].date = data.items[2].date

(***************************************************************************)
(* C16: activation starts exactly one fetch in the activation step itself, *)
(* before any timer wait, and as long as the 05:00 timer has not fired     *)
(* exactly one fetch has been started.                                     *)
(***************************************************************************)
C16_OneFetchOnActivation ==
    [][/\ (phase = "idle" /\ phase' # "idle")
            => (fetchesStarted' = 1 /\ requests' = {1})
       /\ phase' = "idle" => fetchesStarted' = 0
       /\ timer'.pending => fetchesStarted' = 1]_vars

\* the timer is due and has not fired yet: still one fetch
C16_Witness ==
    /\ phase = "mounted"
    /\ timer.pending
    /\ clock = timer.due
    /\ fetchesStarted = 1

(***************************************************************************)
(* C17: with no fetch failed and no due timer waiting to run, whenever the *)
(* scheduler is Armed nextUpdate is the instant the pending timer fires,   *)
(* and whenever nextUpdate lies in the future of a live session a timer is *)
(* pending for it.                                                         *)
(***************************************************************************)
C17_NextUpdateMatchesTimer ==
    (phase = "mounted" /\ errors = 0
     /\ ~(timer.pending /\ clock >= timer.due)) =>
        /\ Armed => nextUpdateTime = timer.due
        /\ nextUpdateTime > clock
              => (timer.pending /\ timer.due = nextUpdateTime)

(***************************************************************************)
(* C18: once the response of a later-started fetch has been stored, the    *)
(* response of an earlier-started fetch that resolves afterwards does not  *)
(* overwrite the Series, the Metrics snapshot or lastUpdate.               *)
(***************************************************************************)
LaterFetchStored(r) ==
    /\ errors = 0
    /\ \E j \in (r.id + 1)..fetchesStarted : j \notin InFlight

C18_LatestFetchWins ==
    [][\A r \in responses :
          (LaterFetchStored(r) /\ r \notin responses')
              => UNCHANGED <<data, metrics, lastUpdateTime>>]_vars

(***************************************************************************)
(* C19: the slice handed to the chart for the selected window W in         *)
(* {7, 30, 100} is exactly the last min(N, W) observations of the Series   *)
(* in their order, and selecting a window changes neither the Series, the  *)
(* Metrics snapshot nor RefreshState and starts no fetch.                  *)
(***************************************************************************)
SelectedDays ==
    CASE timeRange = "7d" -> 7
      [] timeRange = "30d" -> 30
      [] timeRange = "100d" -> 100

ChartIsTrailingSlice ==
    data.tag = "array" =>
        LET S == data.items
            N == Len(S)
            chart == getChartData(data, timeRange)
        IN /\ Len(chart) = Min2(N, SelectedDays)
           /\ \A i \in 1..Len(chart) : chart[i] = S[N - Len(chart) + i]

C19_WindowSliceAndFrame ==
    /\ []ChartIsTrailingSlice
    /\ [][timeRange' # timeRange
            => UNCHANGED <<data, metrics, lastUpdateTime, nextUpdateTime,
                           fetchesStarted, requests, responses, timer>>]_vars

\* the 7-day window selected on a longer series whose levels differ
C19_Witness ==
    /\ timeRange = "7d"
    /\ data.tag = "array"
    /\ Len(data.items) > 100
    /\ Len(getChartData(data, timeRange)) = 7
    /\ data.items[1].volatility # data.items[Len(data.items)].volatility
    /\ fetchesStarted = 1
====
